---- MODULE Spec2Model ----
(***************************************************************************)
(* A model of the request handlers of src/app.py: compress (/api/compress) *)
(* and split (/api/split).  One request is one behaviour: Init is the      *)
(* request as Flask hands it to the handler, the actions are the handler's *)
(* statements in order, and pc = "done" is the return.                     *)
(*                                                                         *)
(* Text is a sequence of one-character strings.  The libraries (pikepdf,   *)
(* Pillow, pypdf) are modelled by their call results: a call either        *)
(* returns or raises, and where the source cannot tell which, both happen. *)
(***************************************************************************)
EXTENDS Integers, Sequences, FiniteSets, TLC

VARIABLES
    pc,             \* the handler's position
    file,           \* request.files.get('file')
    form,           \* request.form: level, quality, mode, range
    quality,        \* compress: the resolved quality
    original_size,  \* compress: len(data)
    pdf,            \* compress: the opened document (a sequence of pages)
    pi,             \* compress: index of the page the loop is at
    ki,             \* compress: index of the key the inner loop is at
    img,            \* compress: the decoded (then normalized) image
    buf,            \* compress: the re-encoded bytes
    skipped,        \* compress: the <<page, key>> whose except clause ran
    stage,          \* which call raised into the handler's own except
    total,          \* split: len(reader.pages)
    pages,          \* split: the selected page indices
    zip,            \* split: the zip entries written
    resp            \* the response returned

vars == <<pc, file, form, quality, original_size, pdf, pi, ki, img, buf,
          skipped, stage, total, pages, zip, resp>>

----------------------------------------------------------------------------
(* Bounds of the model *)

MaxQLen == 3
MaxRangeLen == 4
MaxPages == 2
MaxXObjs == 2
MaxSize == 16
MaxExcLen == 101

(* Program constants *)

MAX_FILE_MB == 25
ErrCut == 100
QMin == 10
QMax == 90
QLow == 75
QMedium == 50
QHigh == 20
QDefault == 50

FileLimit == MAX_FILE_MB * 1024 * 1024

----------------------------------------------------------------------------
(* Text *)

Digits == <<"0", "1", "2", "3", "4", "5", "6", "7", "8", "9">>

IsDigit(c) == \E i \in 1..10 : Digits[i] = c

DigitVal(c) == (CHOOSE i \in 1..10 : Digits[i] = c) - 1

Take(s, n) == SubSeq(s, 1, IF Len(s) < n THEN Len(s) ELSE n)

Drop(s, n) == SubSeq(s, n + 1, Len(s))

RECURSIVE LStrip(_)
LStrip(s) == IF s # <<>> /\ Head(s) = " " THEN LStrip(Tail(s)) ELSE s

RECURSIVE RStrip(_)
RStrip(s) ==
    IF s # <<>> /\ s[Len(s)] = " " THEN RStrip(SubSeq(s, 1, Len(s) - 1)) ELSE s

\* str.strip()
Strip(s) == RStrip(LStrip(s))

\* str.isdigit(): non-empty and every character a digit
IsDigitStr(s) == s # <<>> /\ \A i \in 1..Len(s) : IsDigit(s[i])

RECURSIVE DecVal(_)
DecVal(s) ==
    IF s = <<>> THEN 0 ELSE 10 * DecVal(SubSeq(s, 1, Len(s) - 1)) + DigitVal(s[Len(s)])

\* int(text): surrounding whitespace is stripped, then an optional sign and
\* decimal digits; anything else raises ValueError (ok = FALSE).
PyInt(s) ==
    LET t == Strip(s)
        signed == t # <<>> /\ Head(t) \in {"-", "+"}
        d == IF signed THEN Tail(t) ELSE t
    IN  IF IsDigitStr(d)
        THEN [ok |-> TRUE,
              val |-> IF signed /\ Head(t) = "-" THEN 0 - DecVal(d) ELSE DecVal(d)]
        ELSE [ok |-> FALSE, val |-> 0]

\* str.split(sep): the pieces between the separators, in order
RECURSIVE SplitOn(_, _)
SplitOn(s, sep) ==
    IF \E i \in 1..Len(s) : s[i] = sep
    THEN LET i == CHOOSE j \in 1..Len(s) : s[j] = sep /\ \A h \in 1..(j - 1) : s[h] # sep
         IN  <<SubSeq(s, 1, i - 1)>> \o SplitOn(Drop(s, i), sep)
    ELSE <<s>>

\* str.lower() on the letters file names use here
LowerChar(c) ==
    CASE c = "P" -> "p" [] c = "D" -> "d" [] c = "F" -> "f" [] c = "A" -> "a"
      [] OTHER -> c

Lower(s) == [i \in 1..Len(s) |-> LowerChar(s[i])]

EndsWith(s, suf) ==
    Len(s) >= Len(suf) /\ SubSeq(s, Len(s) - Len(suf) + 1, Len(s)) = suf

\* all texts over alphabet A of length at most n
RECURSIVE Texts(_, _)
Texts(A, n) ==
    IF n = 0 THEN {<<>>}
    ELSE LET shorter == Texts(A, n - 1)
         IN  shorter \cup {Append(t, c) : t \in {u \in shorter : Len(u) = n - 1}, c \in A}

----------------------------------------------------------------------------
(* Request validation shared by the handlers *)

\* werkzeug's FileStorage is falsy when it has no filename
NoFile(f) == ~f.present \/ f.name = <<>>

is_pdf(f) == EndsWith(Lower(f.name), <<".", "p", "d", "f">>)

file_too_big(f) == f.size > FileLimit

\* err(msg): jsonify({'error': msg}), 400.  msg is <<fixed text, diagnostic>>.
err(text, diag) ==
    [kind |-> "error", status |-> 400, download |-> "", payload |-> <<>>,
     bytes |-> 0, headers |-> {}, error |-> <<text, diag>>]

NoResp ==
    [kind |-> "none", status |-> 0, download |-> "", payload |-> <<>>, bytes |-> 0,
     headers |-> {}, error |-> <<"", <<>>>>]

ErrLen(r) == Len(r.error[1]) + Len(r.error[2])

\* Diagnostic without the cut
DiagnosticUncut(e) == e

\* str(e)[:100]
Diagnostic(e) == Take(e, ErrCut)

\* the texts an exception of a library may carry
ExcLens == {0, 3, ErrCut, MaxExcLen}

ExcTexts == {[i \in 1..n |-> "x"] : n \in ExcLens}

----------------------------------------------------------------------------
(* Documents, as pikepdf and Pillow present them *)

\* The raw bytes of a stream as uploaded are known by the mode of the image
\* Pillow decodes them to ("bad": no image file Pillow can identify).
Modes == {"RGB", "RGBA", "LA", "L", "P", "CMYK", "1"}

OrigData(m) ==
    [enc |-> "orig", mode |-> m, q |-> 0, how |-> "none", mask |-> "none", src |-> m]

\* an entry of /Resources /XObject
XObj(sub, m, parms) ==
    [subtype |-> sub, data |-> OrigData(m), filter |-> "/FlateDecode",
     parms |-> parms, cs |-> "orig"]

Page(i, xs) == [id |-> i, xobjs |-> xs]

NoImg == [mode |-> "none", how |-> "none", mask |-> "none", src |-> "none"]

NoBuf ==
    [enc |-> "none", mode |-> "none", q |-> 0, how |-> "none", mask |-> "none",
     src |-> "none"]

\* The bands Image.split() returns, by mode
Bands(m) ==
    CASE m = "RGB" -> <<"R", "G", "B">>
      [] m = "RGBA" -> <<"R", "G", "B", "A">>
      [] m = "LA" -> <<"L", "A">>
      [] m = "CMYK" -> <<"C", "M", "Y", "K">>
      [] OTHER -> <<m>>

\* The mode of the image that is band b of an image of mode m: a single-band
\* image is copied as it is, a band of a multi-band image is an "L" image.
BandMode(m) == IF Len(Bands(m)) = 1 THEN m ELSE "L"

\* img.split()[-1]
LastBand(m) == Bands(m)[Len(Bands(m))]

\* Image.paste accepts a mask of mode "1", "L", "LA", "RGBA" or "RGBa" and
\* raises ValueError (bad transparency mask) for any other.
MaskAccepted(m) == BandMode(m) \in {"1", "L", "LA", "RGBA", "RGBa"}

\* /Subtype == '/Image'
IsImage(x) == x.subtype = "/Image"

\* the JPEG written by img.save(buf, 'JPEG', quality=quality, optimize=True)
Jpeg(im, q) ==
    [enc |-> "jpeg", mode |-> im.mode, q |-> q, how |-> im.how, mask |-> im.mask,
     src |-> im.src]

----------------------------------------------------------------------------
(* compress: quality resolution, src/app.py lines 111-119 *)

\* request.form.get(name, default)
FormGet(field, default) == IF field.present THEN field.text ELSE default

\* Preset with the values of low and high exchanged
PresetExchanged(level) ==
    CASE level = "low" -> QHigh
      [] level = "medium" -> QMedium
      [] level = "high" -> QLow
      [] OTHER -> QDefault

\* quality_map.get(level, 50)
Preset(level) ==
    CASE level = "low" -> QLow
      [] level = "medium" -> QMedium
      [] level = "high" -> QHigh
      [] OTHER -> QDefault

\* InRange without its lower limit
InRangeNoLower(q) == q <= QMax

InRange(q) == QMin <= q /\ q <= QMax

\* int(request.form.get('quality', 0)): the default 0 is already an integer
QualityInt(f) ==
    IF f.quality.present THEN PyInt(f.quality.text) ELSE [ok |-> TRUE, val |-> 0]

ResolvedQuality(f) ==
    LET level == FormGet(f.level, "medium")
        n == QualityInt(f)
    IN  IF n.ok /\ InRange(n.val) THEN n.val ELSE Preset(level)

----------------------------------------------------------------------------
(* compress: the size report, src/app.py line 159 *)

\* floor(1000 * r / o) for 0 <= r < o, a decimal digit at a time
Frac3(r, o) ==
    LET d1 == (r * 10) \div o
        r1 == (r * 10) % o
        d2 == (r1 * 10) \div o
        r2 == (r1 * 10) % o
        d3 == (r2 * 10) \div o
        r3 == (r2 * 10) % o
    IN  [q |-> 100 * d1 + 10 * d2 + d3, rem |-> r3]

\* SavedTenths cutting the digits after the first decimal instead of rounding
SavedTenthsCut(new, orig) ==
    LET d == orig - new
    IN  {1000 * (d \div orig) + Frac3(d % orig, orig).q}

\* round((1 - new/orig) * 100, 1), in tenths of a percent.  The quotient is a
\* binary float: away from a tie it rounds to the nearest tenth, and on an
\* exact tie of the real value the float may lie on either side.
SavedTenths(new, orig) ==
    LET d == orig - new
        a == d \div orig
        f == Frac3(d % orig, orig)
        lo == 1000 * a + f.q
    IN  IF 2 * f.rem < orig THEN {lo}
        ELSE IF 2 * f.rem > orig THEN {lo + 1}
        ELSE {lo, lo + 1}

\* ... if original_size else 0
Saved(new, orig) == IF orig # 0 THEN SavedTenths(new, orig) ELSE {0}

\* the lengths pdf.save may give the document of an upload of orig bytes
NewSizes(orig) == 0..((IF orig < MaxSize THEN orig ELSE MaxSize) + 1)

\* send_file(io.BytesIO(compressed), ...) with the three headers
Success(doc, orig, new, saved) ==
    [kind |-> "file", status |-> 200, download |-> "compressed.pdf", payload |-> doc,
     bytes |-> new,
     headers |-> {<<"X-Original-Size", orig>>, <<"X-New-Size", new>>,
                  <<"X-Saved-Percent", saved>>},
     error |-> <<"", <<>>>>]

----------------------------------------------------------------------------
(* compress: the handler, src/app.py lines 105-168 *)

Done(r) ==
    /\ pc' = "done"
    /\ resp' = r

\* lines 106-109: the three early returns
CheckFile ==
    /\ pc = "c_check"
    /\ \/ /\ NoFile(file)
          /\ Done(err("No file uploaded", <<>>))
          /\ UNCHANGED pdf
       \/ /\ ~NoFile(file) /\ ~is_pdf(file)
          /\ Done(err("Only PDF files allowed", <<>>))
          /\ UNCHANGED pdf
       \/ /\ ~NoFile(file) /\ is_pdf(file) /\ file_too_big(file)
          /\ Done(err("File must be under 25MB", <<>>))
          /\ UNCHANGED pdf
       \/ /\ ~NoFile(file) /\ is_pdf(file) /\ ~file_too_big(file)
          /\ pc' = "c_quality"
          /\ UNCHANGED <<resp, pdf>>
    /\ UNCHANGED <<file, form, quality, original_size, pi, ki, img, buf, skipped,
                   stage, total, pages, zip>>

\* lines 111-119
ResolveQuality ==
    /\ pc = "c_quality"
    /\ quality' = ResolvedQuality(form)
    /\ pc' = "c_read"
    /\ UNCHANGED <<file, form, original_size, pdf, pi, ki, img, buf, skipped,
                   stage, total, pages, zip, resp>>

\* lines 121-122
ReadData ==
    /\ pc = "c_read"
    /\ original_size' = file.size
    /\ pc' = "c_open"
    /\ UNCHANGED <<file, form, quality, pdf, pi, ki, img, buf, skipped, stage,
                   total, pages, zip, resp>>

\* CompressFailed sending the attachment along with the error
CompressFailedWithFile(e) ==
    [err("Compression failed: ", Diagnostic(e)) EXCEPT !.download = "compressed.pdf"]

\* str(e)[:100] behind the handler's fixed text, lines 167-168
CompressFailed(e) == err("Compression failed: ", Diagnostic(e))

\* line 127, pikepdf.open: bytes that are no document raise; a document opens
OpenPdf ==
    /\ pc = "c_open"
    /\ \/ /\ ~file.isdoc
          /\ \E e \in ExcTexts : Done(CompressFailed(e))
          /\ stage' = "parse"
          /\ UNCHANGED <<pdf, pi>>
       \/ /\ file.isdoc
          /\ pdf' = file.doc
          /\ pi' = 1
          /\ pc' = "c_page"
          /\ UNCHANGED <<stage, resp>>
    /\ UNCHANGED <<file, form, quality, original_size, ki, img, buf, skipped,
                   total, pages, zip>>

\* line 129 and line 131: the next page and its /XObject dictionary.  A raise
\* at line 131 ends this page at line 149.
BeginPage ==
    /\ pc = "c_page"
    /\ pi <= Len(pdf)
    /\ \/ /\ ki' = 1
          /\ pc' = "c_xobj"
          /\ UNCHANGED <<pi, skipped>>
       \/ /\ skipped' = skipped \cup {<<pi, 0>>}
          /\ pi' = pi + 1
          /\ UNCHANGED <<pc, ki>>
    /\ UNCHANGED <<file, form, quality, original_size, pdf, img, buf, stage,
                   total, pages, zip, resp>>

\* lines 132-134: the next key; an image goes on to line 136, anything else is
\* passed over, and a raise at line 133 or 134 ends the page at line 149.
NextXObj ==
    /\ pc = "c_xobj"
    /\ \/ /\ ki > Len(pdf[pi].xobjs)
          /\ pi' = pi + 1
          /\ pc' = "c_page"
          /\ UNCHANGED <<ki, skipped>>
       \/ /\ ki <= Len(pdf[pi].xobjs)
          /\ IsImage(pdf[pi].xobjs[ki])
          /\ pc' = "c_decode"
          /\ UNCHANGED <<pi, ki, skipped>>
       \/ /\ ki <= Len(pdf[pi].xobjs)
          /\ ~IsImage(pdf[pi].xobjs[ki])
          /\ ki' = ki + 1
          /\ UNCHANGED <<pc, pi, skipped>>
       \/ /\ ki <= Len(pdf[pi].xobjs)
          /\ skipped' = skipped \cup {<<pi, 0>>}
          /\ pi' = pi + 1
          /\ pc' = "c_page"
          /\ UNCHANGED ki
    /\ UNCHANGED <<file, form, quality, original_size, pdf, img, buf, stage,
                   total, pages, zip, resp>>

\* SkipImage without the except clause: the raise leaves the loops
SkipImageRaises ==
    /\ skipped' = skipped \cup {<<pi, ki>>}
    /\ ki' = ki
    /\ pc' = "c_raised"
    /\ img' = NoImg
    /\ buf' = NoBuf

\* line 148, except: pass: on to the next key, the image as it is by now
SkipImage ==
    /\ skipped' = skipped \cup {<<pi, ki>>}
    /\ ki' = ki + 1
    /\ pc' = "c_xobj"
    /\ img' = NoImg
    /\ buf' = NoBuf

\* line 136, Image.open(io.BytesIO(xobj.read_raw_bytes()))
Decode ==
    /\ pc = "c_decode"
    /\ LET m == pdf[pi].xobjs[ki].data.mode
       IN  \/ /\ m # "bad"
              /\ img' = [mode |-> m, how |-> "asis", mask |-> "none", src |-> m]
              /\ pc' = "c_normalize"
              /\ UNCHANGED <<ki, buf, skipped>>
           \/ SkipImage
    /\ UNCHANGED <<file, form, quality, original_size, pdf, pi, stage, total,
                   pages, zip, resp>>

\* line 139, bg.paste(img, mask=img.split()[-1]): img over white through the
\* mask, which is img's last band whatever that band is
Pasted(im) == [mode |-> "RGB", how |-> "paste", mask |-> LastBand(im.mode), src |-> im.src]

\* line 140, img.convert('RGB')
Converted(im) == [mode |-> "RGB", how |-> "convert", mask |-> "none", src |-> im.src]

\* lines 137-141
Normalize ==
    /\ pc = "c_normalize"
    /\ \/ /\ img.mode = "RGB"
          /\ pc' = "c_encode"
          /\ UNCHANGED <<img, ki, buf, skipped>>
       \/ /\ img.mode # "RGB"
          /\ MaskAccepted(img.mode)
          /\ img' = Pasted(img)
          /\ pc' = "c_encode"
          /\ UNCHANGED <<ki, buf, skipped>>
       \/ /\ img.mode # "RGB"
          /\ img' = Converted(img)
          /\ pc' = "c_encode"
          /\ UNCHANGED <<ki, buf, skipped>>
       \/ /\ img.mode # "RGB"
          /\ SkipImage
    /\ UNCHANGED <<file, form, quality, original_size, pdf, pi, stage, total,
                   pages, zip, resp>>

\* lines 142-143
Encode ==
    /\ pc = "c_encode"
    /\ \/ /\ buf' = Jpeg(img, quality)
          /\ pc' = "c_setdata"
          /\ UNCHANGED <<img, ki, skipped>>
       \/ SkipImage
    /\ UNCHANGED <<file, form, quality, original_size, pdf, pi, stage, total,
                   pages, zip, resp>>

\* WithField writing to every entry of the page
WithFieldOfAll(f, v) ==
    [pdf EXCEPT ![pi].xobjs = [k \in 1..Len(@) |-> [@[k] EXCEPT ![f] = v]]]

\* the entry at <<pi, ki>> with field f set to v
WithField(f, v) ==
    [pdf EXCEPT ![pi].xobjs[ki] = [@ EXCEPT ![f] = v]]

\* a statement of lines 144-147: it takes effect and the next one follows, or
\* it raises and line 148 is next
Statement(at, next, after) ==
    /\ pc = at
    /\ \/ /\ pdf' = after
          /\ pc' = next
          /\ UNCHANGED <<img, buf, ki, skipped>>
       \/ /\ SkipImage
          /\ UNCHANGED pdf
    /\ UNCHANGED <<file, form, quality, original_size, pi, stage, total, pages,
                   zip, resp>>

\* line 144, xobj.stream_data = buf.getvalue()
SetData == Statement("c_setdata", "c_setfilter", WithField("data", buf))

\* line 145, xobj['/Filter'] = pikepdf.Name('/DCTDecode')
SetFilter == Statement("c_setfilter", "c_delparms", WithField("filter", "/DCTDecode"))

\* line 146, if '/DecodeParms' in xobj: del xobj['/DecodeParms']
DelParms == Statement("c_delparms", "c_setcs", WithField("parms", FALSE))

\* line 147, xobj['/ColorSpace'] = pikepdf.Name('/DeviceRGB'); then the next key
SetColorSpace ==
    /\ pc = "c_setcs"
    /\ \/ /\ pdf' = WithField("cs", "/DeviceRGB")
          /\ ki' = ki + 1
          /\ pc' = "c_xobj"
          /\ img' = NoImg
          /\ buf' = NoBuf
          /\ UNCHANGED skipped
       \/ /\ SkipImage
          /\ UNCHANGED pdf
    /\ UNCHANGED <<file, form, quality, original_size, pi, stage, total, pages,
                   zip, resp>>

\* lines 151-168: pdf.save raises, or the saved bytes go out with their sizes
Save ==
    /\ pc = "c_page"
    /\ pi > Len(pdf)
    /\ \/ /\ \E e \in ExcTexts : Done(CompressFailed(e))
          /\ stage' = "write"
       \/ /\ \E new_size \in NewSizes(original_size) : \E saved \in Saved(new_size, original_size) :
                Done(Success(pdf, original_size, new_size, saved))
          /\ UNCHANGED stage
    /\ UNCHANGED <<file, form, quality, original_size, pdf, pi, ki, img, buf,
                   skipped, total, pages, zip>>

NextCompress ==
    \/ CheckFile
    \/ ResolveQuality
    \/ ReadData
    \/ OpenPdf
    \/ BeginPage
    \/ NextXObj
    \/ Decode
    \/ Normalize
    \/ Encode
    \/ SetData
    \/ SetFilter
    \/ DelParms
    \/ SetColorSpace
    \/ Save

----------------------------------------------------------------------------
(* split: the handler, src/app.py lines 62-100 *)

\* list(range(lo, hi))
Range(lo, hi) == IF hi > lo THEN [i \in 1..(hi - lo) |-> lo + i - 1] ELSE <<>>

Min(a, b) == IF a < b THEN a ELSE b

\* lines 81-87 for one part of the range: the page indices it adds, or a raise
\* (a, b = part.split('-') with other than two pieces; int() of a non-number)
PartPages(part, n) ==
    LET p == Strip(part)
        pieces == SplitOn(p, "-")
        a == PyInt(pieces[1])
        b == PyInt(pieces[2])
    IN  IF \E i \in 1..Len(p) : p[i] = "-"
        THEN IF Len(pieces) = 2 /\ a.ok /\ b.ok
             THEN [ok |-> TRUE, pages |-> Range(a.val - 1, Min(b.val, n))]
             ELSE [ok |-> FALSE, pages |-> <<>>]
        ELSE IF IsDigitStr(p) /\ 0 <= DecVal(p) - 1 /\ DecVal(p) - 1 < n
             THEN [ok |-> TRUE, pages |-> <<DecVal(p) - 1>>]
             ELSE [ok |-> TRUE, pages |-> <<>>]

\* lines 79-87: the parts in order; the first raise ends the loop
RECURSIVE RangePages(_, _)
RangePages(parts, n) ==
    IF parts = <<>> THEN [ok |-> TRUE, pages |-> <<>>]
    ELSE LET first == PartPages(Head(parts), n)
             rest == RangePages(Tail(parts), n)
         IN  IF first.ok /\ rest.ok
             THEN [ok |-> TRUE, pages |-> first.pages \o rest.pages]
             ELSE [ok |-> FALSE, pages |-> <<>>]

\* lines 76-87
SelectedPages(f, n) ==
    IF FormGet(f.mode, "all") = "all"
    THEN [ok |-> TRUE, pages |-> Range(0, n)]
    ELSE RangePages(SplitOn(Strip(FormGet(f.range, <<>>)), ","), n)

\* str(n) for n >= 0
RECURSIVE Decimal(_)
Decimal(n) ==
    IF n < 10 THEN <<Digits[n + 1]>>
    ELSE Append(Decimal(n \div 10), Digits[(n % 10) + 1])

\* f'{n:03d}' for n >= 0: zeros in front up to a width of 3
Pad3(n) ==
    LET d == Decimal(n)
    IN  [i \in 1..(3 - Len(d)) |-> "0"] \o d

\* f'page_{page_num+1:03d}.pdf'
EntryName(page_num) ==
    <<"p", "a", "g", "e", "_">> \o Pad3(page_num + 1) \o <<".", "p", "d", "f">>

\* reader.pages[i]: a negative index counts from the end; outside both
\* ranges it is an IndexError (0 here)
PageAt(doc, i) ==
    LET j == IF i < 0 THEN Len(doc) + i ELSE i
    IN  IF 0 <= j /\ j < Len(doc) THEN doc[j + 1].id ELSE 0

\* line 96: the entry written for page_num
Entry(doc, page_num) == [name |-> EntryName(page_num), page |-> PageAt(doc, page_num)]

SplitFailed(e) == err("Split failed: ", Diagnostic(e))

\* the text of the exception a bad range raises
ValueErrorText == <<"i", "n", "v", "a", "l", "i", "d">>

IndexErrorText == <<"i", "n", "d", "e", "x">>

\* lines 63-66
SplitCheckFile ==
    /\ pc = "s_check"
    /\ \/ /\ NoFile(file)
          /\ Done(err("No file uploaded", <<>>))
       \/ /\ ~NoFile(file) /\ ~is_pdf(file)
          /\ Done(err("Only PDF files allowed", <<>>))
       \/ /\ ~NoFile(file) /\ is_pdf(file) /\ file_too_big(file)
          /\ Done(err("File must be under 25MB", <<>>))
       \/ /\ ~NoFile(file) /\ is_pdf(file) /\ ~file_too_big(file)
          /\ pc' = "s_read"
          /\ UNCHANGED resp
    /\ UNCHANGED <<file, form, quality, original_size, pdf, pi, ki, img, buf,
                   skipped, stage, total, pages, zip>>

\* lines 73-74
SplitRead ==
    /\ pc = "s_read"
    /\ \/ /\ ~file.isdoc
          /\ \E e \in ExcTexts : Done(SplitFailed(e))
          /\ stage' = "parse"
          /\ UNCHANGED total
       \/ /\ file.isdoc
          /\ total' = Len(file.doc)
          /\ pc' = "s_select"
          /\ UNCHANGED <<stage, resp>>
    /\ UNCHANGED <<file, form, quality, original_size, pdf, pi, ki, img, buf,
                   skipped, pages, zip>>

\* lines 76-88
SplitSelect ==
    /\ pc = "s_select"
    /\ LET sel == SelectedPages(form, total)
       IN  \/ /\ ~sel.ok
              /\ Done(SplitFailed(ValueErrorText))
              /\ stage' = "range"
              /\ UNCHANGED pages
           \/ /\ sel.ok /\ sel.pages = <<>>
              /\ Done(err("No valid pages in that range", <<>>))
              /\ UNCHANGED <<pages, stage>>
           \/ /\ sel.ok /\ sel.pages # <<>>
              /\ pages' = sel.pages
              /\ pc' = "s_zip"
              /\ UNCHANGED <<resp, stage>>
    /\ UNCHANGED <<file, form, quality, original_size, pdf, pi, ki, img, buf,
                   skipped, total, zip>>

\* lines 90-98: one zip entry per selected index, in order
SplitZip ==
    /\ pc = "s_zip"
    /\ LET entries == [i \in 1..Len(pages) |-> Entry(file.doc, pages[i])]
       IN  \/ /\ \E i \in 1..Len(entries) : entries[i].page = 0
              /\ Done(SplitFailed(IndexErrorText))
              /\ stage' = "zip"
              /\ UNCHANGED zip
           \/ /\ \E e \in ExcTexts : Done(SplitFailed(e))
              /\ stage' = "write"
              /\ UNCHANGED zip
           \/ /\ \A i \in 1..Len(entries) : entries[i].page # 0
              /\ zip' = entries
              /\ Done([kind |-> "file", status |-> 200, download |-> "split_pages.zip",
                       payload |-> entries, bytes |-> 0, headers |-> {},
                       error |-> <<"", <<>>>>])
              /\ UNCHANGED stage
    /\ UNCHANGED <<file, form, quality, original_size, pdf, pi, ki, img, buf,
                   skipped, total, pages>>

NextSplit ==
    \/ SplitCheckFile
    \/ SplitRead
    \/ SplitSelect
    \/ SplitZip

----------------------------------------------------------------------------
(* Requests *)

Absent == [present |-> FALSE, text |-> <<>>]

AbsentName == [present |-> FALSE, text |-> ""]

Given(t) == [present |-> TRUE, text |-> t]

PdfName == <<"a", ".", "p", "d", "f">>

\* an upload whose bytes are a document
DocFile(name, size, doc) ==
    [present |-> TRUE, name |-> name, size |-> size, isdoc |-> TRUE, doc |-> doc]

\* an upload whose bytes are no document (an empty upload is one)
JunkFile(name, size) ==
    [present |-> TRUE, name |-> name, size |-> size, isdoc |-> FALSE, doc |-> <<>>]

NoUpload == [present |-> FALSE, name |-> <<>>, size |-> 0, isdoc |-> FALSE, doc |-> <<>>]

\* the uploads the early returns turn away
RejectedFiles ==
    {NoUpload,
     JunkFile(<<>>, 3),
     JunkFile(<<"a", ".", "t", "x", "t">>, 3),
     JunkFile(<<"p", "d", "f">>, 3),
     JunkFile(PdfName, FileLimit + 1)}

\* uploads that reach the library and are no document
JunkFiles == {JunkFile(PdfName, 0), JunkFile(<<"A", ".", "P", "D", "F">>, 3)}

ImageRGB == XObj("/Image", "RGB", FALSE)
ImageRGBA == XObj("/Image", "RGBA", TRUE)
Form == XObj("/Form", "bad", FALSE)

\* the pages over the entries in K with at most n entries each
PageContents(K, n) == UNION {[1..m -> K] : m \in 0..n}

Entries(d) ==
    LET RECURSIVE Sum(_)
        Sum(i) == IF i = 0 THEN 0 ELSE Len(d[i]) + Sum(i - 1)
    IN  Sum(Len(d))

\* the documents of at most MaxPages pages and MaxXObjs entries over K
Docs(K) ==
    {[i \in 1..Len(d) |-> Page(i, d[i])] :
        d \in {c \in UNION {[1..n -> PageContents(K, MaxXObjs)] : n \in 0..MaxPages} :
                  Entries(c) <= MaxXObjs}}

OneImageDoc(x) == <<Page(1, <<x>>)>>

\* a document of n pages without resources
PlainDoc(n) == [i \in 1..n |-> Page(i, <<>>)]

NoForm == [level |-> AbsentName, quality |-> Absent, mode |-> AbsentName, range |-> Absent]

InitRest ==
    /\ quality = 0
    /\ original_size = 0
    /\ pdf = <<>>
    /\ pi = 0
    /\ ki = 0
    /\ img = NoImg
    /\ buf = NoBuf
    /\ skipped = {}
    /\ stage = "none"
    /\ total = 0
    /\ pages = <<>>
    /\ zip = <<>>
    /\ resp = NoResp

\* compress, over documents and uploads
InitCompress ==
    /\ pc = "c_check"
    /\ file \in RejectedFiles \cup JunkFiles
                \cup {DocFile(PdfName, FileLimit, OneImageDoc(ImageRGB))}
                \cup {DocFile(PdfName, 1, d) : d \in Docs({ImageRGB, ImageRGBA, Form})}
    /\ form \in {NoForm, [NoForm EXCEPT !.quality = Given(<<"2", "0">>)]}
    /\ InitRest

SpecCompress == InitCompress /\ [][NextCompress]_vars

\* compress, over the form fields that decide the quality
QualityAlphabet == {"0", "1", "9", "-", ".", " ", "a"}

QualityFields == {Absent} \cup {Given(t) : t \in Texts(QualityAlphabet, MaxQLen)}

LevelFields == {AbsentName} \cup {Given(l) : l \in {"low", "medium", "high", "max"}}

InitQuality ==
    /\ pc = "c_check"
    /\ \/ /\ file = DocFile(PdfName, 1, <<Page(1, <<Form, ImageRGB>>)>>)
          /\ form \in {[NoForm EXCEPT !.quality = q, !.level = l] :
                          q \in QualityFields, l \in LevelFields}
       \/ /\ file = DocFile(PdfName, 1, <<Page(1, <<ImageRGBA>>)>>)
          /\ form \in {NoForm, [NoForm EXCEPT !.quality = Given(<<"9", "0">>)]}
    /\ InitRest

SpecQuality == InitQuality /\ [][NextCompress]_vars

\* compress, over the sizes of the upload and of the saved document
InitMetrics ==
    /\ pc = "c_check"
    /\ file \in {JunkFile(PdfName, 0), JunkFile(PdfName, FileLimit + 1)}
                \cup {DocFile(PdfName, s, <<Page(1, <<Form, ImageRGBA>>)>>) :
                         s \in 1..MaxSize}
    /\ form = NoForm
    /\ InitRest

SpecMetrics == InitMetrics /\ [][NextCompress]_vars

\* compress, over the modes of an embedded image
InitNormalize ==
    /\ pc = "c_check"
    /\ file \in {DocFile(PdfName, 1, <<Page(1, <<Form, XObj("/Image", m, p)>>)>>) :
                    m \in Modes \cup {"bad"}, p \in BOOLEAN}
    /\ form = NoForm
    /\ InitRest

SpecNormalize == InitNormalize /\ [][NextCompress]_vars

\* split, over the documents and the range field
RangeAlphabet == {"0", "1", "2", "-", ",", " ", "a"}

InitSplit ==
    /\ pc = "s_check"
    /\ \/ /\ file \in RejectedFiles \cup JunkFiles
          /\ form = [NoForm EXCEPT !.mode = Given("range"), !.range = Given(<<"1">>)]
       \/ /\ file \in {DocFile(PdfName, MaxSize, PlainDoc(n)) : n \in 0..MaxPages}
          /\ form \in {NoForm, [NoForm EXCEPT !.mode = Given("all")],
                       [NoForm EXCEPT !.mode = Given("range")]}
                      \cup {[NoForm EXCEPT !.mode = Given("range"), !.range = Given(t)] :
                               t \in Texts(RangeAlphabet, MaxRangeLen)}
    /\ InitRest

SpecSplit == InitSplit /\ [][NextSplit]_vars

----------------------------------------------------------------------------
(* Properties *)

\* the request is past the early returns of lines 106-109
Validated == pc # "c_check" /\ ~(pc = "done" /\ resp.kind = "error" /\ stage = "none")

\* the <<page, key>> of a document
Positions(doc) ==
    UNION {{<<p, k>> : k \in 1..Len(doc[p].xobjs)} : p \in 1..Len(doc)}

At(doc, pos) == doc[pos[1]].xobjs[pos[2]]

\* the streams of a document that the loop has re-encoded
JpegStreams(doc) ==
    {At(doc, pos).data : pos \in {q \in Positions(doc) : At(doc, q).data.enc = "jpeg"}}

HeaderNames(r) == {h[1] : h \in r.headers}

Metrics == {"X-Original-Size", "X-New-Size", "X-Saved-Percent"}

IsSuccess(r) ==
    /\ r.kind = "file"
    /\ r.status = 200
    /\ r.download = "compressed.pdf"
    /\ HeaderNames(r) = Metrics
    /\ Cardinality(r.headers) = 3
    /\ r.error = <<"", <<>>>>

IsError(r) ==
    /\ r.kind = "error"
    /\ Len(r.error[1]) > 0
    /\ r.download = ""
    /\ r.payload = <<>>
    /\ r.headers = {}


\* C1: whatever the quality and level fields hold, quality resolution goes on
\* to the next statement without raising, and the resolved quality, which is
\* the quality of every re-encoding, is an integer from 10 to 90.
C1_QualityInRange ==
    /\ pc = "c_quality" => ENABLED ResolveQuality
    /\ (Validated /\ pc # "c_quality") =>
          /\ quality \in 10..90
          /\ buf.enc = "jpeg" => buf.q = quality
          /\ \A d \in JpegStreams(pdf) : d.q = quality

\* C1 witness: a quality field that is no number and an unknown level, and an
\* image re-encoded at the quality resolved from them.
C1_Witness ==
    /\ pc = "done"
    /\ form.quality = Given(<<"a", ".", "1">>)
    /\ form.level = Given("max")
    /\ \E d \in JpegStreams(pdf) : d.q = 50

\* the integers from 10 to 90 that the text t denotes: t is spaces, an optional
\* plus sign, zeros, the two decimal digits of the integer, spaces
Denoted(t) ==
    {n \in 10..90 :
        \E l \in 0..Len(t), z \in 0..Len(t), sign \in {<<>>, <<"+">>} :
            LET k == l + Len(sign) + z
            IN  /\ k + 2 <= Len(t)
                /\ SubSeq(t, 1, k) = [i \in 1..l |-> " "] \o sign \o [i \in 1..z |-> "0"]
                /\ \A i \in (k + 3)..Len(t) : t[i] = " "
                /\ SubSeq(t, k + 1, k + 2) = Decimal(n)}

\* the reference function of the resolved quality
RefQuality(f) ==
    LET explicit == IF f.quality.present THEN Denoted(f.quality.text) ELSE {}
        level == IF f.level.present THEN f.level.text ELSE "medium"
    IN  IF explicit # {}
        THEN CHOOSE n \in explicit : TRUE
        ELSE IF level = "low" THEN 75
             ELSE IF level = "high" THEN 20
             ELSE 50

\* C2: the resolved quality is the quality field's integer when that is an
\* integer from 10 to 90, whatever the level, and else the preset of the level:
\* low 75, medium 50, high 20, and 50 for no level or an unknown one.  Stated
\* where the quality has just been resolved and where it is used to re-encode.
C2_QualityIsReference ==
    /\ pc = "c_read" => quality = RefQuality(form)
    /\ pc = "c_setdata" => buf.q = RefQuality(form)

\* C2 witness: an explicit quality in range, re-encoded with, against a level
\* of another preset.
C2_Witness ==
    /\ pc = "c_setdata"
    /\ form.quality = Given(<<" ", "1", "9">>)
    /\ form.level = Given("low")
    /\ buf.q = 19

\* C3: an image whose processing failed at any step (decode, normalize,
\* re-encode, substitute) is in the document as it was uploaded.
C3_FailedImageUntouched ==
    \A pos \in skipped : pos[2] # 0 => At(pdf, pos) = At(file.doc, pos)

C5_SuccessOrError ==
    /\ pc # "done" => ENABLED NextCompress
    /\ pc = "done" =>
          /\ IsSuccess(resp) \/ IsError(resp)
          /\ ~(IsSuccess(resp) /\ IsError(resp))
          /\ IsSuccess(resp) => resp.payload = pdf /\ pi > Len(pdf)
          /\ stage \in {"parse", "write"} => IsError(resp)

\* C5 witness: serialization failed after an image was replaced, and the
\* response is the error alone.
C5_Witness ==
    /\ pc = "done"
    /\ stage = "write"
    /\ JpegStreams(pdf) # {}
    /\ IsError(resp)

StageName(st) == IF st = "parse" THEN "DocumentParseError" ELSE "DocumentWriteError"

\* C6 as stated: the error of a failed compress names the stage that failed,
\* DocumentParseError or DocumentWriteError, and the message has at most 100
\* characters.
C6_StageNamedAndCut ==
    (pc = "done" /\ stage \in {"parse", "write"}) =>
        /\ resp.error[1] = StageName(stage)
        /\ ErrLen(resp) <= 100

\* C6 amended: a parse failure and a serialization failure are both reported
\* with the one fixed text "Compression failed: " followed by the first 100
\* characters of the exception's text, at most 120 characters together.
C6_OneTextCutDiagnostic ==
    (pc = "done" /\ stage \in {"parse", "write"}) =>
        /\ IsError(resp)
        /\ resp.error[1] = "Compression failed: "
        /\ \E e \in ExcTexts : resp.error[2] = SubSeq(e, 1, IF Len(e) < 100 THEN Len(e) ELSE 100)
        /\ Len(resp.error[2]) <= 100
        /\ ErrLen(resp) <= 120

\* C6 witness: a serialization failure whose text was cut to 100 characters.
C6_Witness ==
    /\ pc = "done"
    /\ stage = "write"
    /\ Len(resp.error[2]) = 100
    /\ ErrLen(resp) = 120

Header(r, name) == CHOOSE v \in {h[2] : h \in {g \in r.headers : g[1] = name}} : TRUE

Abs(x) == IF x < 0 THEN 0 - x ELSE x

\* C7: of a success result, originalSize is the length of the upload, newSize
\* the length of the returned document, and savedPercent (in tenths) is
\* (1 - newSize/originalSize) * 100 rounded to one decimal: within half a tenth
\* of it, so negative when the document grew, and 0 for an empty upload.
C7_SizeMetrics ==
    (pc = "done" /\ resp.kind = "file") =>
        LET o == Header(resp, "X-Original-Size")
            n == Header(resp, "X-New-Size")
            t == Header(resp, "X-Saved-Percent")
        IN  /\ IsSuccess(resp)
            /\ o = file.size
            /\ n = resp.bytes
            /\ o = 0 => t = 0
            /\ o # 0 => 2 * Abs(t * o - 1000 * (o - n)) <= o
            /\ (o # 0 /\ 2000 * (n - o) > o) => t < 0

\* C7 witness: a document of 3 bytes saved as 4 reports -33.3.
C7_Witness ==
    /\ pc = "done"
    /\ resp.headers = {<<"X-Original-Size", 3>>, <<"X-New-Size", 4>>,
                       <<"X-Saved-Percent", -333>>}

\* what the loop may change of an entry
SameButStream(x, y) ==
    /\ x.subtype = y.subtype
    /\ ~IsImage(y) => x = y

HasAlpha(m) == m \in {"RGBA", "LA"}

\* C9: normalization yields an RGB image; only an image with an alpha channel
\* is composited through a mask; one without passes unchanged when RGB and is
\* converted directly otherwise.
C9_MaskOnlyForAlpha ==
    pc = "c_encode" =>
        /\ img.mode = "RGB"
        /\ img.how = "paste" => HasAlpha(img.src)
        /\ ~HasAlpha(img.src) => img.how = (IF img.src = "RGB" THEN "asis" ELSE "convert")

\* C10: with a mode other than 'all', every index selected for the zip that is
\* returned is a page of the document, and every zip entry page_NNN.pdf has
\* NNN in 1..total and holds page NNN.
C10_SelectedPagesExist ==
    (FormGet(form.mode, "all") # "all" /\ pc = "done" /\ resp.kind = "file") =>
            /\ \A i \in 1..Len(pages) : pages[i] \in 0..(total - 1)
            /\ \A i \in 1..Len(resp.payload) :
                  \E n \in 1..total :
                      /\ resp.payload[i].name = EntryName(n - 1)
                      /\ resp.payload[i].page = n

====
